---------------------------- MODULE Spec2Model ----------------------------
(***************************************************************************)
(* Wireless pH sensor dashboard (sensors.py): the timer-driven tick        *)
(* updateFigs, the pH evaluation evalPH, the three calibration captures,   *)
(* the serial connect / disconnect handlers, the session log files and     *)
(* the persisted calibration file ph.json.                                 *)
(*                                                                         *)
(* Numbers.  Python floats are modelled as fixed-point integers:           *)
(*   - a sensor reading (a token of a serial line, an element of a plot    *)
(*     window) is held in TENTHS of its unit (25.5 degC is 255);           *)
(*   - a mean of a 10-element window, a calibration constant and a pH      *)
(*     value are held in HUNDREDTHS (7.00 is 700, 273.15 K is 27315).      *)
(* With these units every mean of a 10-element window is exact.  Binary    *)
(* floating-point rounding error is not modelled; NaN and +-infinity, the  *)
(* results numpy gives for a division by zero, are.                        *)
(***************************************************************************)
EXTENDS Integers, Sequences, FiniteSets, TLC

----------------------------------------------------------------------------
(* Bounds of the model *)

\* SpecSession: seconds of wall-clock time that pass (a tick takes one)
SessClock == 3
\* SpecSession: restarts of the program after it was closed or aborted
SessRestarts == 1
\* SpecCal: seconds of wall-clock time that pass
CalClock == 3
\* SpecCal: calibration button presses
CalCaptures == 2
\* SpecStore: seconds of wall-clock time that pass
StoreClock == 2
\* SpecStore: calibration button presses
StoreCaptures == 2
\* SpecStore: restarts of the program
StoreRestarts == 1
\* SpecWin: seconds of wall-clock time that pass, one tick in each
WinClock == 11
\* SpecFrame: seconds of wall-clock time that pass
FrameClock == 2
\* SpecFrame: calibration button presses
FrameCaptures == 2

----------------------------------------------------------------------------
(* Program constants *)

\* np.zeros(10): the length of the two plot windows and the seed of the trend
WindowLen == 10

\* 273.15, the Celsius -> Kelvin offset, in hundredths
Kelvin == 27315

----------------------------------------------------------------------------
(* Integer helpers *)

Abs(n) == IF n < 0 THEN -n ELSE n

Sign(n) == IF n < 0 THEN -1 ELSE IF n = 0 THEN 0 ELSE 1

RECURSIVE SumSeq(_)
SumSeq(s) == IF s = <<>> THEN 0 ELSE Head(s) + SumSeq(Tail(s))

\* <<floor(r*k/b), (r*k) mod b>> for 0 <= r < b, by doubling, so that no
\* intermediate value exceeds 2*b
RECURSIVE MulMod(_, _, _)
MulMod(r, k, b) ==
    IF k = 0 THEN <<0, 0>>
    ELSE LET h  == MulMod(r, k \div 2, b)
             d  == 2 * h[2]
             q1 == 2 * h[1] + (IF d >= b THEN 1 ELSE 0)
             r1 == IF d >= b THEN d - b ELSE d
             s  == r1 + r
         IN  IF k % 2 = 0 THEN <<q1, r1>>
             ELSE <<q1 + (IF s >= b THEN 1 ELSE 0), IF s >= b THEN s - b ELSE s>>

\* k*a/b rounded to the nearest integer, ties to even (Python 3 round), b # 0
RoundMulDiv(k, a, b) ==
    LET aa == Abs(a)
        bb == Abs(b)
        q  == aa \div bb
        m  == MulMod(aa % bb, k, bb)
        fl == k * q + m[1]
        up == \/ 2 * m[2] > bb
              \/ 2 * m[2] = bb /\ fl % 2 = 1
    IN  Sign(a) * Sign(b) * (fl + (IF up THEN 1 ELSE 0))

----------------------------------------------------------------------------
(* Text: a string is a sequence of one-character strings *)

DigitSeq == <<"0", "1", "2", "3", "4", "5", "6", "7", "8", "9">>

DigitChars == {DigitSeq[i] : i \in 1..10}

DigitValue(c) == CHOOSE n \in 0..9 : DigitSeq[n + 1] = c

AllDigits(s) == \A i \in 1..Len(s) : s[i] \in DigitChars

\* the value of a string of digits
RECURSIVE IntOfDigits(_)
IntOfDigits(s) ==
    IF s = <<>> THEN 0
    ELSE 10 * IntOfDigits(SubSeq(s, 1, Len(s) - 1)) + DigitValue(s[Len(s)])

\* the digits of n >= 0
RECURSIVE DigitsOfInt(_)
DigitsOfInt(n) ==
    IF n < 10 THEN <<DigitSeq[n + 1]>>
    ELSE Append(DigitsOfInt(n \div 10), DigitSeq[(n % 10) + 1])

Whitespace == {" ", "\t", "\r", "\n"}

\* bytes.split(): the maximal runs of non-blank characters
RECURSIVE SplitAcc(_, _, _)
SplitAcc(s, cur, acc) ==
    IF s = <<>> THEN (IF cur = <<>> THEN acc ELSE Append(acc, cur))
    ELSE IF Head(s) \in Whitespace
         THEN SplitAcc(Tail(s), <<>>, IF cur = <<>> THEN acc ELSE Append(acc, cur))
         ELSE SplitAcc(Tail(s), Append(cur, Head(s)), acc)

split(s) == SplitAcc(s, <<>>, <<>>)

\* a token without its sign
Unsigned(tok) == IF tok # <<>> /\ Head(tok) \in {"-", "+"} THEN Tail(tok) ELSE tok

\* the position of the first "." of s, or Len(s) + 1
DotAt(s) ==
    IF \E i \in 1..Len(s) : s[i] = "."
    THEN CHOOSE i \in 1..Len(s) : s[i] = "." /\ \A j \in 1..(i - 1) : s[j] # "."
    ELSE Len(s) + 1

IntPart(tok) == SubSeq(Unsigned(tok), 1, DotAt(Unsigned(tok)) - 1)

FracPart(tok) == SubSeq(Unsigned(tok), DotAt(Unsigned(tok)) + 1, Len(Unsigned(tok)))

\* whether float(tok) succeeds: [sign] digits [. digits], with a digit somewhere
\* (the serial alphabet of the model holds no exponent, "inf" or "nan")
IsFloat(tok) ==
    /\ AllDigits(IntPart(tok))
    /\ AllDigits(FracPart(tok))
    /\ Len(IntPart(tok)) + Len(FracPart(tok)) > 0

\* float(tok) in tenths; the lines of the model carry at most one decimal
float(tok) ==
    LET mag == 10 * IntOfDigits(IntPart(tok))
                 + (IF FracPart(tok) = <<>> THEN 0 ELSE DigitValue(FracPart(tok)[1]))
    IN  IF tok # <<>> /\ Head(tok) = "-" THEN -mag ELSE mag

\* a repr that keeps one decimal only
ReprOneDecimal(v) ==
    (IF v < 0 THEN <<"-">> ELSE <<>>) \o DigitsOfInt(Abs(v) \div 100) \o <<".">>
        \o <<DigitSeq[((Abs(v) % 100) \div 10) + 1]>>

\* repr of a float held in hundredths, as json.dump writes it: "-12.5", "300.0"
Repr(v) ==
    LET a    == Abs(v)
        frac == IF a % 10 = 0 THEN <<DigitSeq[((a % 100) \div 10) + 1]>>
                ELSE <<DigitSeq[((a % 100) \div 10) + 1], DigitSeq[(a % 10) + 1]>>
    IN  (IF v < 0 THEN <<"-">> ELSE <<>>) \o DigitsOfInt(a \div 100) \o <<".">> \o frac

\* the number json.load reads from a JSON number literal, in hundredths
ParseNumber(txt) ==
    LET f   == FracPart(txt)
        h   == IF f = <<>> THEN 0
               ELSE IF Len(f) = 1 THEN 10 * DigitValue(f[1])
               ELSE 10 * DigitValue(f[1]) + DigitValue(f[2])
        mag == 100 * IntOfDigits(IntPart(txt)) + h
    IN  IF txt # <<>> /\ Head(txt) = "-" THEN -mag ELSE mag

----------------------------------------------------------------------------
(* The serial lines the sensor board may send, as ser.readline() returns them *)

\* 25 60 0 100\r\n: accepted: 25 degC, 60 %, 0 mV, 100 mV
LineA == <<"2", "5", " ", "6", "0", " ", "0", " ", "1", "0", "0", "\r", "\n">>

\* 30.5 55 100 0\r\n: accepted: 30.5 degC, difference -100 mV
LineB == <<"3", "0", ".", "5", " ", "5", "5", " ", "1", "0", "0", " ", "0", "\r", "\n">>

\* 25 60 40 50\r\n: accepted: difference 10 mV
LineC == <<"2", "5", " ", "6", "0", " ", "4", "0", " ", "5", "0", "\r", "\n">>

\* 25 60 0\r\n: three numeric tokens
LineShort == <<"2", "5", " ", "6", "0", " ", "0", "\r", "\n">>

\* 25 60 0 50 7\r\n: five numeric tokens
LineLong == <<"2", "5", " ", "6", "0", " ", "0", " ", "5", "0", " ", "7", "\r", "\n">>

\* 25.0 60.0 abc 100.0\r\n: four tokens, one of them not a number
LineBad == <<"2", "5", ".", "0", " ", "6", "0", ".", "0", " ", "a", "b", "c", " ", "1", "0", "0", ".", "0", "\r", "\n">>

\* readline() timed out after 1 s: an empty line
LineEmpty == <<>>

Lines == {LineA, LineB, LineC, LineShort, LineLong, LineBad, LineEmpty}

----------------------------------------------------------------------------
(* State *)

VARIABLES
    phase,        \* "running", "closed" (after Quit / window close), "aborted"
    ph_cal_dict,  \* self.ph_cal_dict: the calibration constants in memory
    json_file,    \* the contents of ph.json on disk
    ph_plot_y,    \* self.ph_plot.y: the last 10 voltage differences
    temp_plot_y,  \* self.temp_plot.y: the last 10 temperatures
    ph_full_y,    \* self.ph_full_plot.y: the whole trend
    ph_full_x,    \* self.ph_full_plot.x: its time index
    ph_lcd,       \* the value the pH display shows
    temp_lcd,     \* the value the temperature display shows
    ser,          \* self.ser: "unset" (no attribute yet), "open", "closed"
    timer1,       \* whether self.timer1 is running
    filename,     \* self.filename: <<>> while unset, else <<time stamp>>
    files,        \* the data directory: time stamp -> session file
    clock,        \* wall-clock time in seconds
    op,           \* the handler that ran last
    err,          \* the exception it raised, or "none"
    line,         \* the line the last handler read from the port, <<>> if none
    accepted,     \* the samples accepted since the last connect (history)
    nCaptures,    \* calibration button presses so far (for the bound)
    nRestarts     \* restarts of the program so far (for the bound)

vars == <<phase, ph_cal_dict, json_file, ph_plot_y, temp_plot_y, ph_full_y,
          ph_full_x, ph_lcd, temp_lcd, ser, timer1, filename, files, clock,
          op, err, line, accepted, nCaptures, nRestarts>>

\* a finite float, in hundredths
Fin(v) == [nan |-> FALSE, v |-> v]

\* the float NaN
NaN == [nan |-> TRUE, v |-> 0]

\* the dictionary readJson builds when ph.json does not exist
DefaultCal ==
    [Equations |-> "E = k1*T - k2*T*(pH - pH7)",
     ph7_cal |-> 0, ph4_cal |-> 18000, ph10_cal |-> -18000, T |-> 30000]

\* json.dump(self.ph_cal_dict, f_obj, indent=4): every number as its literal
JsonDump(d) ==
    [Equations |-> d.Equations,
     ph7_cal |-> Repr(d.ph7_cal), ph4_cal |-> Repr(d.ph4_cal),
     ph10_cal |-> Repr(d.ph10_cal), T |-> Repr(d.T)]

\* json.load(f_obj)
JsonLoad(f) ==
    [Equations |-> f.Equations,
     ph7_cal |-> ParseNumber(f.ph7_cal), ph4_cal |-> ParseNumber(f.ph4_cal),
     ph10_cal |-> ParseNumber(f.ph10_cal), T |-> ParseNumber(f.T)]

\* np.zeros(10)
Zeros == [i \in 1..WindowLen |-> 0]

\* np.arange(10)
Arange == [i \in 1..WindowLen |-> i - 1]

\* np.mean(y) in hundredths of the unit of y (y holds tenths); exact for the
\* 10-element windows
mean(y) == RoundMulDiv(10, SumSeq(y), Len(y))

\* a push that forgets np.delete
PushNoEvict(y, v) == Append(y, v)

\* y = np.append(y, v); y = np.delete(y, 0)
Push(y, v) == Tail(Append(y, v))

\* the session file connectButton writes: four header lines, no data row
NewFile(stamp) ==
    [header |-> <<"# wireless pH sensor data log", "# Date: <time_stamp>",
                  "# Temperature, Relative Humidity, Voltage of Ag/AgCl electrode, Voltage of pH electrode, Voltage difference, Evaluated pH Value",
                  "# ">>,
     stamp  |-> stamp,
     rows   |-> <<>>]

----------------------------------------------------------------------------
(* evalPH *)

\* a clamp that forgets the lower end
ClampUpperOnly(pH) == IF pH >= 1400 THEN Fin(1400) ELSE Fin(pH)

\* pH = round(pH, 2); if pH <= 0: return 0; elif pH >= 14: return 14; else pH
Clamp(pH) == IF pH <= 0 THEN Fin(0) ELSE IF pH >= 1400 THEN Fin(1400) ELSE Fin(pH)

\* the sign of delta_mv = mean(y) - ph7_cal/T*(mean(ty) + 273.15), as the integer
\* mean(y)*T - ph7_cal*(mean(ty) + 273.15)  (T > 0)
DeltaNum(d, y, ty) == mean(y) * d.T - d.ph7_cal * (mean(ty) + Kelvin)

\* three times the slope of the branch delta_mv selects, times T:
\* (ph4_cal - ph7_cal)*(mean(ty) + 273.15) or (ph7_cal - ph10_cal)*(...)
SlopeNum(d, y, ty) ==
    IF DeltaNum(d, y, ty) >= 0
    THEN (d.ph4_cal - d.ph7_cal) * (mean(ty) + Kelvin)
    ELSE (d.ph7_cal - d.ph10_cal) * (mean(ty) + Kelvin)

\* evalPH with self.ph_cal_dict = d, self.ph_plot.y = y, self.temp_plot.y = ty.
\* pH = 7 - delta_mv/slope = 7 - 3*DeltaNum/SlopeNum.  A zero slope divides
\* numpy floats: x/0.0 is +-inf (7 - inf <= 0 returns 0, 7 + inf >= 14 returns
\* 14) and 0.0/0.0 is nan, which fails both comparisons and is returned.
evalPH(d, y, ty) ==
    LET num == DeltaNum(d, y, ty)
        den == SlopeNum(d, y, ty)
    IN  IF den = 0
        THEN IF num = 0 THEN NaN ELSE IF num > 0 THEN Fin(0) ELSE Fin(1400)
        ELSE Clamp(700 - RoundMulDiv(300, num, den))

----------------------------------------------------------------------------
(* Handlers.  Each is a Qt slot run to completion on the one GUI thread. *)

\* the slot returns normally
Returned(o) == op' = o /\ err' = "none" /\ phase' = phase

\* the slot raises e and nothing catches it: PyQt5 prints the traceback and,
\* from version 5.5 on, aborts the process; older versions go on
Raised(o, e) == op' = o /\ err' = e /\ phase' \in {"running", "aborted"}

\* the row updateFigs writes for data, with the evaluated pH
Row(data, pH) ==
    [temp |-> data[1], humi |-> data[2], ref |-> data[3], ph |-> data[4],
     diff |-> data[4] - data[3], pH |-> pH]

\* self.data = [float(val) for val in line.split()]: the list, or the
\* ValueError float raises on the first token that is no number
ParseLine(l) ==
    LET toks == split(l)
    IN  IF \E i \in 1..Len(toks) : ~IsFloat(toks[i])
        THEN [raises |-> TRUE, data |-> <<>>]
        ELSE [raises |-> FALSE, data |-> [i \in 1..Len(toks) |-> float(toks[i])]]

\* ParseLine, tabulated over the lines of the model
Parsed == [l \in Lines |-> ParseLine(l)]

\* a tick that also takes a line of more than four numbers
AcceptsAtLeastFour(data) == Len(data) >= 4

\* if(len(self.data) == 4)
Accepts(data) == Len(data) = 4

\* a tick that pushes the voltage difference before it evaluates the pH
updateFigs_PushFirst(l) ==
    /\ phase = "running" /\ timer1
    /\ line' = l
    /\ clock' = clock + 1
    /\ IF Parsed[l].raises
       THEN /\ Raised("updateFigs", "ValueError")
            /\ UNCHANGED <<ph_plot_y, temp_plot_y, ph_full_y, ph_full_x, ph_lcd,
                           temp_lcd, files, accepted>>
       ELSE IF Accepts(Parsed[l].data)
            THEN LET data == Parsed[l].data
                     ty   == Push(temp_plot_y, data[1])
                     pH   == evalPH(ph_cal_dict, Push(ph_plot_y, data[4] - data[3]), ty)
                 IN  /\ temp_lcd' = data[1]
                     /\ temp_plot_y' = ty
                     /\ ph_lcd' = pH
                     /\ ph_plot_y' = Push(ph_plot_y, data[4] - data[3])
                     /\ ph_full_y' = Append(ph_full_y, data[4] - data[3])
                     /\ ph_full_x' = Append(ph_full_x, ph_full_x[Len(ph_full_x)] + 1)
                     /\ files' = [files EXCEPT ![filename[1]].rows =
                                                   Append(@, Row(data, pH))]
                     /\ accepted' = Append(accepted, data)
                     /\ Returned("updateFigs")
            ELSE /\ Returned("updateFigs")
                 /\ UNCHANGED <<ph_plot_y, temp_plot_y, ph_full_y, ph_full_x,
                                ph_lcd, temp_lcd, files, accepted>>
    /\ UNCHANGED <<ph_cal_dict, json_file, ser, timer1, filename, nCaptures,
                   nRestarts>>

\* timer1.timeout -> updateFigs, with l the line self.ser.readline() returns
updateFigs(l) ==
    /\ phase = "running" /\ timer1
    /\ line' = l
    /\ clock' = clock + 1
    /\ IF Parsed[l].raises
       THEN /\ Raised("updateFigs", "ValueError")
            /\ UNCHANGED <<ph_plot_y, temp_plot_y, ph_full_y, ph_full_x, ph_lcd,
                           temp_lcd, files, accepted>>
       ELSE IF Accepts(Parsed[l].data)
            THEN LET data == Parsed[l].data
                     ty   == Push(temp_plot_y, data[1])
                     pH   == evalPH(ph_cal_dict, ph_plot_y, ty)
                 IN  /\ temp_lcd' = data[1]
                     /\ temp_plot_y' = ty
                     /\ ph_lcd' = pH
                     /\ ph_plot_y' = Push(ph_plot_y, data[4] - data[3])
                     /\ ph_full_y' = Append(ph_full_y, data[4] - data[3])
                     /\ ph_full_x' = Append(ph_full_x, ph_full_x[Len(ph_full_x)] + 1)
                     /\ files' = [files EXCEPT ![filename[1]].rows =
                                                   Append(@, Row(data, pH))]
                     /\ accepted' = Append(accepted, data)
                     /\ Returned("updateFigs")
            ELSE /\ Returned("updateFigs")
                 /\ UNCHANGED <<ph_plot_y, temp_plot_y, ph_full_y, ph_full_x,
                                ph_lcd, temp_lcd, files, accepted>>
    /\ UNCHANGED <<ph_cal_dict, json_file, ser, timer1, filename, nCaptures,
                   nRestarts>>

\* "pH 7 calibration"
ph7CalButton ==
    /\ phase = "running"
    /\ line' = <<>>
    /\ ph_cal_dict' = [ph_cal_dict EXCEPT !.ph7_cal = mean(ph_plot_y),
                                          !.T = mean(temp_plot_y) + Kelvin]
    /\ nCaptures' = nCaptures + 1
    /\ Returned("ph7CalButton")
    /\ UNCHANGED <<json_file, ph_plot_y, temp_plot_y, ph_full_y, ph_full_x, ph_lcd,
                   temp_lcd, ser, timer1, filename, files, clock, accepted, nRestarts>>

\* a pH 4 capture that also stores the temperature, as the pH 7 capture does
ph4CalButton_SetsTemperature ==
    /\ phase = "running"
    /\ line' = <<>>
    /\ ph_cal_dict' = [ph_cal_dict EXCEPT !.ph4_cal = mean(ph_plot_y),
                                          !.T = mean(temp_plot_y) + Kelvin]
    /\ nCaptures' = nCaptures + 1
    /\ Returned("ph4CalButton")
    /\ UNCHANGED <<json_file, ph_plot_y, temp_plot_y, ph_full_y, ph_full_x, ph_lcd,
                   temp_lcd, ser, timer1, filename, files, clock, accepted, nRestarts>>

\* "pH 4 calibration"
ph4CalButton ==
    /\ phase = "running"
    /\ line' = <<>>
    /\ ph_cal_dict' = [ph_cal_dict EXCEPT !.ph4_cal = mean(ph_plot_y)]
    /\ nCaptures' = nCaptures + 1
    /\ Returned("ph4CalButton")
    /\ UNCHANGED <<json_file, ph_plot_y, temp_plot_y, ph_full_y, ph_full_x, ph_lcd,
                   temp_lcd, ser, timer1, filename, files, clock, accepted, nRestarts>>

\* "pH 10 calibration"
ph10CalButton ==
    /\ phase = "running"
    /\ line' = <<>>
    /\ ph_cal_dict' = [ph_cal_dict EXCEPT !.ph10_cal = mean(ph_plot_y)]
    /\ nCaptures' = nCaptures + 1
    /\ Returned("ph10CalButton")
    /\ UNCHANGED <<json_file, ph_plot_y, temp_plot_y, ph_full_y, ph_full_x, ph_lcd,
                   temp_lcd, ser, timer1, filename, files, clock, accepted, nRestarts>>

\* a connect that creates a session file on the first connect only
connectButton_KeepFile(now) ==
    /\ phase = "running"
    /\ line' = <<>>
    /\ clock' = now
    /\ \/ /\ ser' = "open"
          /\ timer1' = TRUE
          /\ filename' = IF filename = <<>> THEN <<now>> ELSE filename
          /\ files' = IF filename = <<>>
                      THEN [t \in DOMAIN files \cup {now} |->
                               IF t = now THEN NewFile(now) ELSE files[t]]
                      ELSE files
          /\ accepted' = <<>>
          /\ Returned("connectButton")
       \/ /\ Raised("connectButton", "SerialException")
          /\ UNCHANGED <<ser, timer1, filename, files, accepted>>
    /\ UNCHANGED <<ph_cal_dict, json_file, ph_plot_y, temp_plot_y, ph_full_y,
                   ph_full_x, ph_lcd, temp_lcd, nCaptures,
                   nRestarts>>

\* "Connect", clicked at wall-clock second now.  serial.Serial(port, ...) either opens the port or raises
\* SerialException (no such port, port busy) before anything else is done.
\* On success the new object replaces self.ser (the old one, if any, is
\* released and closed), the timer is (re)started and the session file named
\* by the current second is created, truncating a file of that name.
connectButton(now) ==
    /\ phase = "running"
    /\ line' = <<>>
    /\ clock' = now
    /\ \/ /\ ser' = "open"
          /\ timer1' = TRUE
          /\ filename' = <<now>>
          /\ files' = [t \in DOMAIN files \cup {now} |->
                          IF t = now THEN NewFile(now) ELSE files[t]]
          /\ accepted' = <<>>
          /\ Returned("connectButton")
       \/ /\ Raised("connectButton", "SerialException")
          /\ UNCHANGED <<ser, timer1, filename, files, accepted>>
    /\ UNCHANGED <<ph_cal_dict, json_file, ph_plot_y, temp_plot_y, ph_full_y,
                   ph_full_x, ph_lcd, temp_lcd, nCaptures,
                   nRestarts>>

\* "Disconnect": self.ser.flush(); self.ser.close(); self.timer1.stop().
\* Before the first connect self.ser does not exist (AttributeError); on a
\* port already closed flush() raises portNotOpenError.
disconnectButton ==
    /\ phase = "running"
    /\ line' = <<>>
    /\ CASE ser = "open" ->
              /\ ser' = "closed"
              /\ timer1' = FALSE
              /\ Returned("disconnectButton")
         [] ser = "unset" ->
              /\ Raised("disconnectButton", "AttributeError")
              /\ UNCHANGED <<ser, timer1>>
         [] ser = "closed" ->
              /\ Raised("disconnectButton", "portNotOpenError")
              /\ UNCHANGED <<ser, timer1>>
    /\ UNCHANGED <<ph_cal_dict, json_file, ph_plot_y, temp_plot_y, ph_full_y,
                   ph_full_x, ph_lcd, temp_lcd, filename, files, clock,
                   accepted, nCaptures, nRestarts>>

\* fileQuit's body: write ph.json, then self.close(), which ends the program
SaveAndClose(o) ==
    /\ phase = "running"
    /\ line' = <<>>
    /\ json_file' = JsonDump(ph_cal_dict)
    /\ phase' = "closed"
    /\ op' = o
    /\ err' = "none"
    /\ UNCHANGED <<ph_cal_dict, ph_plot_y, temp_plot_y, ph_full_y, ph_full_x, ph_lcd,
                   temp_lcd, ser, timer1, filename, files, clock, accepted, nCaptures, nRestarts>>

\* File > Quit
fileQuit == SaveAndClose("fileQuit")

\* the window is closed: closeEvent calls fileQuit
closeEvent == SaveAndClose("closeEvent")

\* the program is started again: ApplicationWindow.__init__ with ph.json present
Startup ==
    /\ phase \in {"closed", "aborted"}
    /\ phase' = "running"
    /\ ph_cal_dict' = JsonLoad(json_file)
    /\ ph_plot_y' = Zeros /\ temp_plot_y' = Zeros
    /\ ph_full_y' = Zeros /\ ph_full_x' = Arange
    /\ ph_lcd' = Fin(0) /\ temp_lcd' = 0
    /\ ser' = "unset" /\ timer1' = FALSE /\ filename' = <<>>
    /\ op' = "init" /\ err' = "none" /\ line' = <<>> /\ accepted' = <<>>
    /\ nRestarts' = nRestarts + 1
    /\ UNCHANGED <<json_file, files, clock, nCaptures>>

\* the first start: ph.json does not exist, readJson creates it
Init ==
    /\ phase = "running"
    /\ ph_cal_dict = DefaultCal
    /\ json_file = JsonDump(DefaultCal)
    /\ ph_plot_y = Zeros /\ temp_plot_y = Zeros
    /\ ph_full_y = Zeros /\ ph_full_x = Arange
    /\ ph_lcd = Fin(0) /\ temp_lcd = 0
    /\ ser = "unset" /\ timer1 = FALSE /\ filename = <<>>
    /\ files = [t \in {} |-> NewFile(t)]
    /\ clock = 0
    /\ op = "init" /\ err = "none" /\ line = <<>> /\ accepted = <<>>
    /\ nCaptures = 0 /\ nRestarts = 0

\* what a step may use up: seconds, calibration presses, restarts
Budget(maxClock, maxCaptures, maxRestarts) ==
    clock' <= maxClock /\ nCaptures' <= maxCaptures /\ nRestarts' <= maxRestarts

\* ---- the session: every handler but the calibration buttons, every line shape

SessionLines == {LineA, LineShort, LineLong, LineBad, LineEmpty}

InSession == Budget(SessClock, 0, SessRestarts)

SessionTick == \E l \in SessionLines : updateFigs(l) /\ InSession

\* the click comes within the current second or in the next one
SessionConnect == \E now \in {clock, clock + 1} : connectButton(now) /\ InSession

SessionNext ==
    \/ SessionTick
    \/ SessionConnect
    \/ disconnectButton
    \/ fileQuit
    \/ closeEvent
    \/ Startup /\ InSession

SpecSession == Init /\ [][SessionNext]_vars

\* the state after Init and a first successful click on Connect, at second 0
InitConnected ==
    /\ phase = "running"
    /\ ph_cal_dict = DefaultCal
    /\ json_file = JsonDump(DefaultCal)
    /\ ph_plot_y = Zeros /\ temp_plot_y = Zeros
    /\ ph_full_y = Zeros /\ ph_full_x = Arange
    /\ ph_lcd = Fin(0) /\ temp_lcd = 0
    /\ ser = "open" /\ timer1 = TRUE /\ filename = <<0>>
    /\ files = [t \in {0} |-> NewFile(t)]
    /\ clock = 0
    /\ op = "connectButton" /\ err = "none" /\ line = <<>> /\ accepted = <<>>
    /\ nCaptures = 0 /\ nRestarts = 0

\* ---- calibration and pH: a connected session, the well-formed lines, the
\* calibration buttons

CalLines == {LineA, LineB, LineC}

InCal == Budget(CalClock, CalCaptures, 0)

CalTick == \E l \in CalLines : updateFigs(l) /\ InCal

CalNext ==
    \/ CalTick
    \/ ph7CalButton /\ InCal
    \/ ph4CalButton /\ InCal
    \/ ph10CalButton /\ InCal

SpecCal == InitConnected /\ [][CalNext]_vars

\* ---- persistence of the calibration: captures, shutdown, restart

StoreLines == {LineA, LineB}

InStore == Budget(StoreClock, StoreCaptures, StoreRestarts)

StoreTick == \E l \in StoreLines : updateFigs(l) /\ InStore

StoreNext ==
    \/ StoreTick
    \/ ph7CalButton /\ InStore
    \/ ph4CalButton /\ InStore
    \/ ph10CalButton /\ InStore
    \/ fileQuit
    \/ closeEvent
    \/ Startup /\ InStore

SpecStore == InitConnected /\ [][StoreNext]_vars

\* ---- the plot windows over a long session

WinLines == {LineA, LineB}

WinTick == \E l \in WinLines : updateFigs(l) /\ Budget(WinClock, 0, 0)

SpecWin == InitConnected /\ [][WinTick]_vars

\* ---- what each handler leaves alone: the calibration buttons next to ticks,
\* connects and disconnects, from the start of the program

FrameLines == {LineB, LineShort}

InFrame == Budget(FrameClock, FrameCaptures, 0)

FrameTick == \E l \in FrameLines : updateFigs(l) /\ InFrame

FrameConnect == \E now \in {clock, clock + 1} : connectButton(now) /\ InFrame

FrameNext ==
    \/ FrameTick
    \/ FrameConnect
    \/ disconnectButton
    \/ ph7CalButton /\ InFrame
    \/ ph4CalButton /\ InFrame
    \/ ph10CalButton /\ InFrame

SpecFrame == Init /\ [][FrameNext]_vars

----------------------------------------------------------------------------
(* Properties *)

\* the step is a tick that accepted its line
AcceptedStep == op' = "updateFigs" /\ Len(accepted') = Len(accepted) + 1

\* the last row of the current session file
LastRow(fs, fn) == fs[fn[1]].rows[Len(fs[fn[1]].rows)]

\* the tokens of l are exactly four numbers
FourNumbers(l) == Len(split(l)) = 4 /\ \A i \in 1..4 : IsFloat(split(l)[i])

\* a token of l is no number
HasNonNumber(l) == \E i \in 1..Len(split(l)) : ~IsFloat(split(l)[i])

\* the files other than the session file are what they were
OtherFilesKept ==
    /\ DOMAIN files' = DOMAIN files
    /\ \A t \in DOMAIN files : t # filename[1] => files'[t] = files[t]

\* C1: a tick whose line is exactly four numbers pushes the sample once into
\* each window and into the trend and appends one row to the session file; a
\* tick on any other line leaves the windows, the trend and every file alone.
C1_TickUpdatesOnce ==
    [][op' = "updateFigs" =>
         IF FourNumbers(line')
         THEN LET t == float(split(line')[1])
                  d == float(split(line')[4]) - float(split(line')[3])
              IN  /\ temp_plot_y' = Tail(temp_plot_y) \o <<t>>
                  /\ ph_plot_y' = Tail(ph_plot_y) \o <<d>>
                  /\ ph_full_y' = ph_full_y \o <<d>>
                  /\ Len(ph_full_x') = Len(ph_full_x) + 1
                  /\ Len(files'[filename[1]].rows) = Len(files[filename[1]].rows) + 1
                  /\ LastRow(files', filename).diff = d
                  /\ LastRow(files', filename).temp = t
                  /\ OtherFilesKept
         ELSE /\ UNCHANGED <<ph_plot_y, temp_plot_y, ph_full_y, ph_full_x>>
              /\ files' = files]_vars

\* a rejected tick (three tokens) that follows an accepted one, whose row is
\* the only one in the session file
C1_Witness ==
    /\ op = "updateFigs" /\ line = LineShort /\ timer1
    /\ Len(files[filename[1]].rows) = 1
    /\ Len(ph_full_y) = WindowLen + 1
    /\ ph_plot_y[WindowLen] = 1000

\* C3 (as the claim states it): a tick on a line with a non-numeric token ends
\* without an error and the program goes on.
C3_BadLineDroppedQuietly ==
    (op = "updateFigs" /\ HasNonNumber(line)) => (err = "none" /\ phase = "running")

\* C6: once disconnected nothing is appended to any file until a connect; a
\* connect makes the file of its second the session file, with no row in it,
\* and keeps the others; a tick touches the session file only; and the rows of
\* the session file are the samples accepted since the connect, in order.
C6_SessionFile ==
    [][/\ (ser = "closed" /\ op' # "connectButton") => files' = files
       /\ (op' = "connectButton" /\ err' = "none") =>
             /\ filename' = <<clock'>>
             /\ files'[clock'] = NewFile(clock')
             /\ \A t \in DOMAIN files : t # clock' => files'[t] = files[t]
       /\ op' = "updateFigs" => OtherFilesKept
       /\ (phase' = "running" /\ timer1') =>
             /\ Len(files'[filename'[1]].rows) = Len(accepted')
             /\ \A i \in 1..Len(accepted') :
                   LET r == files'[filename'[1]].rows[i]
                   IN  <<r.temp, r.humi, r.ref, r.ph>> = accepted'[i]]_vars

\* a second session with a row of its own, the first session's file still
\* holding its row
C6_Witness ==
    /\ timer1 /\ filename # <<>> /\ accepted # <<>>
    /\ \E t \in DOMAIN files : t < filename[1] /\ Len(files[t].rows) >= 1
    /\ Len(files[filename[1]].rows) = Len(accepted)

\* C7 (as the claim states it): a disconnect always completes without error
\* and leaves no connection open.
C7_DisconnectAlwaysCompletes ==
    op = "disconnectButton" => (err = "none" /\ ser # "open")

\* C8 (as the claim states it): after a disconnect that follows a connect with
\* no sample accepted in between, the session file is not a bare header.
C8_NoHeaderOnlyFile ==
    (op = "disconnectButton" /\ err = "none" /\ accepted = <<>>)
        => files[filename[1]].rows # <<>>

\* C5: each plot window never holds more than WindowLen values, holds exactly
\* WindowLen once WindowLen samples were accepted, and an accepted sample
\* drops the oldest value and adds the new one at the end.
C5_WindowFifo ==
    [][/\ Len(ph_plot_y') <= WindowLen /\ Len(temp_plot_y') <= WindowLen
       /\ Len(accepted') >= WindowLen =>
             Len(ph_plot_y') = WindowLen /\ Len(temp_plot_y') = WindowLen
       /\ AcceptedStep =>
             LET a == accepted'[Len(accepted')]
             IN  /\ ph_plot_y' = SubSeq(ph_plot_y, 2, Len(ph_plot_y)) \o <<a[4] - a[3]>>
                 /\ temp_plot_y' = SubSeq(temp_plot_y, 2, Len(temp_plot_y)) \o <<a[1]>>]_vars

\* more samples than the window holds: every value of the window is a
\* sample's, the oldest kept being the second sample
C5_Witness ==
    /\ Len(accepted) = WindowLen + 1
    /\ \A i \in 1..WindowLen :
          /\ ph_plot_y[i] = accepted[i + 1][4] - accepted[i + 1][3]
          /\ temp_plot_y[i] = accepted[i + 1][1]
    /\ accepted[1] # accepted[2]

\* a pH value within [0, 14]
InRange(p) == ~p.nan /\ 0 <= p.v /\ p.v <= 1400

\* C2: when the slope of the branch the tick selects is not zero, the pH it
\* displays and the pH on the row it writes lie in [0, 14].
C2_PHWithinRange ==
    [][(AcceptedStep /\ SlopeNum(ph_cal_dict, ph_plot_y, temp_plot_y') # 0) =>
          /\ InRange(ph_lcd')
          /\ InRange(LastRow(files', filename).pH)]_vars

\* the voltage window as it was before the last accepted sample
PrevPhWindow == SubSeq(ph_full_y, Len(ph_full_y) - WindowLen, Len(ph_full_y) - 1)

\* the formula of evalPH gave a pH below 0 on a non-zero slope and 0 is shown
C2_Witness ==
    /\ op = "updateFigs" /\ err = "none" /\ accepted # <<>>
    /\ SlopeNum(ph_cal_dict, PrevPhWindow, temp_plot_y) # 0
    /\ 700 - RoundMulDiv(300, DeltaNum(ph_cal_dict, PrevPhWindow, temp_plot_y),
                         SlopeNum(ph_cal_dict, PrevPhWindow, temp_plot_y)) < 0
    /\ ph_lcd = Fin(0)
    /\ LastRow(files, filename).pH = Fin(0)

\* C4 (as the claim states it): on a tick whose selected slope is zero no pH
\* is displayed or recorded: the display keeps its value and the row of the
\* tick carries no pH that evalPH returned.
C4_DegenerateSlopeShowsNoPH ==
    [][(AcceptedStep /\ SlopeNum(ph_cal_dict, ph_plot_y, temp_plot_y') = 0) =>
          /\ ph_lcd' = ph_lcd
          /\ LastRow(files', filename).pH # evalPH(ph_cal_dict, ph_plot_y, temp_plot_y')]_vars

C9_CalibrationRoundTrip ==
    [][/\ phase' = "closed" =>
             /\ JsonLoad(json_file') = ph_cal_dict'
             /\ ph_cal_dict' = ph_cal_dict
       /\ (phase = "closed" /\ phase' = "running") => ph_cal_dict' = ph_cal_dict]_vars

\* restarted after a shutdown, with captured constants that need two decimals
C9_Witness ==
    /\ phase = "running" /\ nRestarts = 1 /\ op = "init"
    /\ ph_cal_dict.T % 10 # 0
    /\ ph_cal_dict.ph7_cal # DefaultCal.ph7_cal
    /\ ph_cal_dict.ph4_cal # DefaultCal.ph4_cal

\* the windows, the trend, the session files and ph.json are as they were
DataKept ==
    UNCHANGED <<ph_plot_y, temp_plot_y, ph_full_y, ph_full_x, files, filename,
                json_file>>

\* the constants of d2 are those of d but for the fields named in keys
OnlyChanged(d, d2, keys) ==
    /\ DOMAIN d2 = DOMAIN d
    /\ \A k \in DOMAIN d \ keys : d2[k] = d[k]

\* C11: a pH 4 capture changes at most ph4_cal, a pH 10 capture at most
\* ph10_cal, a pH 7 capture at most ph7_cal and T; no capture changes the
\* windows, the trend, the session files or ph.json; and no tick, connect or
\* disconnect changes the calibration constants.
C11_CaptureFrame ==
    [][/\ op' = "ph4CalButton" /\ nCaptures' = nCaptures + 1 =>
             OnlyChanged(ph_cal_dict, ph_cal_dict', {"ph4_cal"}) /\ DataKept
       /\ op' = "ph10CalButton" /\ nCaptures' = nCaptures + 1 =>
             OnlyChanged(ph_cal_dict, ph_cal_dict', {"ph10_cal"}) /\ DataKept
       /\ op' = "ph7CalButton" /\ nCaptures' = nCaptures + 1 =>
             OnlyChanged(ph_cal_dict, ph_cal_dict', {"ph7_cal", "T"}) /\ DataKept
       /\ (op' \in {"updateFigs", "connectButton", "disconnectButton"}
              /\ nCaptures' = nCaptures) =>
             ph_cal_dict' = ph_cal_dict]_vars

\* a pH 4 capture on a window that holds a sample set ph4_cal and nothing else,
\* after a pH 7 capture had set ph7_cal and T, with the session file holding
\* the sample's row and ph.json still holding the defaults
C11_Witness ==
    /\ op = "ph4CalButton" /\ err = "none" /\ nCaptures = 2
    /\ Len(accepted) = 1
    /\ ph_cal_dict.ph4_cal = mean(ph_plot_y)
    /\ ph_cal_dict.ph4_cal # DefaultCal.ph4_cal
    /\ ph_cal_dict.ph7_cal # ph_cal_dict.ph4_cal
    /\ ph_cal_dict.T # DefaultCal.T
    /\ ph_cal_dict.T # mean(temp_plot_y) + Kelvin
    /\ ph_cal_dict.ph10_cal = DefaultCal.ph10_cal
    /\ Len(files[filename[1]].rows) = 1
    /\ JsonLoad(json_file) = DefaultCal

============================================================================
